---- MODULE Spec2Model ----
(***************************************************************************)
(* Model of VndbMetadataProviderService                                    *)
(* (src/vndb.metadata-provider.service.ts): the sliding-window rate        *)
(* limiter (enforceRateLimit), the request/retry driver (search,           *)
(* getByProviderDataIdOrFail) and the response handling.                   *)
(*                                                                         *)
(* Time is in milliseconds, as Date.now() reports it.  The program         *)
(* constants keep the values of the source.  Code between two awaits runs  *)
(* to completion (one JavaScript task), so one action is one such block.   *)
(***************************************************************************)
EXTENDS Integers, Sequences, FiniteSets, TLC

\* ---------------------------------------------------------------- constants
MAX_REQUESTS_PER_5_MIN == 200
RATE_LIMIT_WINDOW == 5 * 60 * 1000
MIN_REQUEST_INTERVAL == 1500
\* "+100ms buffer" added to the window wait
WINDOW_BUFFER == 100
\* seconds slept on a 429 without Retry-After header
DEFAULT_RETRY_SECONDS == 60
\* milliseconds slept on an HTML body
HTML_RETRY_MS == 60000
\* errorText.substring(0, 200)
ERROR_TEXT_LIMIT == 200
\* setTimeout: a delay below 1 or above 2^31-1, or NaN, becomes 1
TIMEOUT_MAX == 2147483647

\* ------------------------------------------------------------------- bounds
\* Date.now() when the provider is constructed
StartTime == 1000000
\* free calls plus throttling responses (429 / HTML) in one run: the requests
\* a run makes with freely chosen timing and responses
MaxAttempts == 3
\* free calls whose response is drawn from the whole set of responses
VariedCalls == 1
\* number of back-to-back calls that precede the free calls in a burst run
BurstLen == 200
\* in a slow run: how late each timer fires, how long each response takes (ms)
LatencyMs == 200
\* length of the long error body (exceeds ERROR_TEXT_LIMIT)
LongBody == 201
\* invocations of the mappers in a run that exercises the mappers alone
MaxMappings == 3

\* Caller 1 issues the sequential calls of Spec; caller 2 exists for calls that
\* overlap.
Callers == {1, 2}
Ops == {"search", "get"}

\* ---------------------------------------------------------------- state
VARIABLES
  requestTimestamps,   \* this.requestTimestamps
  lastRequestTime,     \* this.lastRequestTime
  clock,               \* Date.now()
  pc,                  \* per caller: where its call is suspended
  op,                  \* per caller: the operation of its call
  arg,                 \* per caller: the query or provider_data_id passed
  now,                 \* per caller: enforceRateLimit's local `now`
  wake,                \* per caller: earliest time its pending timer fires
  resp,                \* per caller: the last response its call received
  outcome,             \* per caller: what the call returned or threw
  trace,               \* per caller: history of the current call: "admit",
                       \* "request", the upstream's answer, "sleep", "parse"
  admitLog,            \* history: the timestamps recorded, most recent last
  lastAdmit,           \* history, per caller: the timestamp it recorded last
  quiet,               \* back-to-back calls still to come
  calls,               \* free calls started
  retries,             \* throttling responses given
  late,                \* this run: lateness of timers and responses (ms)
  tick,                \* this run: clock ticks between two Date.now() reads
  mappings             \* history: the mapper's invocations, in order

vars == <<requestTimestamps, lastRequestTime, clock, pc, op, arg, now, wake, resp,
          outcome, trace, admitLog, lastAdmit, quiet, calls, retries, late, tick,
          mappings>>

\* ------------------------------------------------------------ numbers
\* A JavaScript number that may be NaN.
Num(v) == [nan |-> FALSE, val |-> v]
NaN == [nan |-> TRUE, val |-> 0]

Max(a, b) == IF a >= b THEN a ELSE b

\* mutant: the timer is started without its duration
delay_Immediate(ms) == 0

\* delay(ms): setTimeout(resolve, ms); the time that passes at least before
\* the timer fires.
delay(ms) ==
  IF ms.nan \/ ms.val < 1 \/ ms.val > TIMEOUT_MAX THEN 1 ELSE ms.val

\* ------------------------------------------------------------ text
\* A text is a sequence of one-character strings.
Min(a, b) == IF a <= b THEN a ELSE b

Digits == {"0", "1", "2", "3", "4", "5", "6", "7", "8", "9"}

DigitValue(c) ==
  CASE c = "0" -> 0 [] c = "1" -> 1 [] c = "2" -> 2 [] c = "3" -> 3
    [] c = "4" -> 4 [] c = "5" -> 5 [] c = "6" -> 6 [] c = "7" -> 7
    [] c = "8" -> 8 [] c = "9" -> 9

IsSpace(c) == c \in {" ", "\n", "\t"}

RECURSIVE TrimStart(_)
TrimStart(s) ==
  IF s # <<>> /\ IsSpace(Head(s)) THEN TrimStart(Tail(s)) ELSE s

RECURSIVE TrimEnd(_)
TrimEnd(s) ==
  IF s # <<>> /\ IsSpace(s[Len(s)]) THEN TrimEnd(SubSeq(s, 1, Len(s) - 1)) ELSE s

\* String.prototype.trim
Trim(s) == TrimEnd(TrimStart(s))

\* String.prototype.startsWith, for a one-character prefix
StartsWith(s, c) == s # <<>> /\ Head(s) = c

\* String.prototype.substring(0, n)
Substring(s, n) == SubSeq(s, 1, Min(Len(s), n))

\* the value of the leading run of digits of s, most significant first
RECURSIVE DigitRun(_, _)
DigitRun(s, acc) ==
  IF s # <<>> /\ Head(s) \in Digits
  THEN DigitRun(Tail(s), 10 * acc + DigitValue(Head(s)))
  ELSE acc

\* parseInt(s): leading white space skipped, an optional sign, then decimal
\* digits up to the first other character; NaN when there is no digit.  (A
\* "0x" prefix, which parseInt reads as hexadecimal, is not among the inputs.)
parseInt(s) ==
  LET t == TrimStart(s)
      neg == t # <<>> /\ Head(t) = "-"
      u == IF t # <<>> /\ Head(t) \in {"-", "+"} THEN Tail(t) ELSE t
  IN IF u = <<>> \/ Head(u) \notin Digits
     THEN NaN
     ELSE Num(IF neg THEN 0 - DigitRun(u, 0) ELSE DigitRun(u, 0))

\* a * b for JavaScript numbers
Times(a, b) == IF a.nan \/ b.nan THEN NaN ELSE Num(a.val * b.val)

\* ------------------------------------------------------------ rate limiter
\* mutant: nothing is dropped
Prune_Nothing(ts, nowv) == ts

\* mutant: only the oldest timestamp is tested
Prune_OldestOnly(ts, nowv) ==
  IF ts # <<>> /\ nowv - ts[1] >= RATE_LIMIT_WINDOW THEN Tail(ts) ELSE ts

\* requestTimestamps.filter((timestamp) => now - timestamp < RATE_LIMIT_WINDOW)
Prune(ts, nowv) == SelectSeq(ts, LAMBDA t : nowv - t < RATE_LIMIT_WINDOW)

\* requestTimestamps.length >= MAX_REQUESTS_PER_5_MIN
WindowFull(ts) == Len(ts) >= MAX_REQUESTS_PER_5_MIN

\* mutant: the wait ends when the oldest request leaves the window, with no
\* buffer
WaitTime_NoBuffer(nowv, oldestRequest) ==
  RATE_LIMIT_WINDOW - (nowv - oldestRequest)

\* RATE_LIMIT_WINDOW - (now - oldestRequest) + 100
WaitTime(nowv, oldestRequest) ==
  RATE_LIMIT_WINDOW - (nowv - oldestRequest) + WINDOW_BUFFER

\* mutant: the minimum interval is not checked
NeedsGap_Never(timeSinceLastRequest) == FALSE

\* timeSinceLastRequest < MIN_REQUEST_INTERVAL
NeedsGap(timeSinceLastRequest) == timeSinceLastRequest < MIN_REQUEST_INTERVAL

\* mutant: the operands of the subtraction swapped
DelayNeeded_Swapped(timeSinceLastRequest) ==
  timeSinceLastRequest - MIN_REQUEST_INTERVAL

\* MIN_REQUEST_INTERVAL - timeSinceLastRequest
DelayNeeded(timeSinceLastRequest) == MIN_REQUEST_INTERVAL - timeSinceLastRequest

\* The history keeps the last MAX_REQUESTS_PER_5_MIN + 1 recorded timestamps.
Logged(log, t) ==
  LET l == Append(log, t)
  IN IF Len(l) > MAX_REQUESTS_PER_5_MIN + 1 THEN Tail(l) ELSE l

\* Lines 374-376: requestTimestamps.push(Date.now()); lastRequestTime =
\* Date.now(), run at time t.  The clock may tick between the two reads.
Record(p, t, ts, tr) ==
  /\ requestTimestamps' = Append(ts, t)
  /\ lastRequestTime' = t + tick
  /\ clock' = t + tick
  /\ admitLog' = Logged(admitLog, t)
  /\ lastAdmit' = [lastAdmit EXCEPT ![p] = t]
  /\ pc' = [pc EXCEPT ![p] = "admitted"]
  /\ wake' = [wake EXCEPT ![p] = 0]
  /\ trace' = [trace EXCEPT ![p] = Append(tr, "admit")]

\* Lines 367-376, run at time t with the `now` read at line 346.
GapCheck(p, t, ts, nowv, tr) ==
  LET timeSinceLastRequest == nowv - lastRequestTime
  IN IF NeedsGap(timeSinceLastRequest)
     THEN /\ requestTimestamps' = ts
          /\ clock' = t
          /\ pc' = [pc EXCEPT ![p] = "gapDelay"]
          /\ wake' = [wake EXCEPT ![p] =
                        t + delay(Num(DelayNeeded(timeSinceLastRequest)))]
          /\ trace' = [trace EXCEPT ![p] = tr]
          /\ UNCHANGED <<lastRequestTime, admitLog, lastAdmit>>
     ELSE Record(p, t, ts, tr)

\* enforceRateLimit from its first line, entered at time t: lines 346-365,
\* then lines 367-376 when no window wait is taken.
Enforce(p, t, tr) ==
  LET nowv == t
      kept == Prune(requestTimestamps, nowv)
  IN /\ now' = [now EXCEPT ![p] = nowv]
     /\ IF WindowFull(kept) /\ WaitTime(nowv, kept[1]) > 0
        THEN /\ requestTimestamps' = kept
             /\ clock' = t
             /\ pc' = [pc EXCEPT ![p] = "capDelay"]
             /\ wake' = [wake EXCEPT ![p] =
                           t + delay(Num(WaitTime(nowv, kept[1])))]
             /\ trace' = [trace EXCEPT ![p] = tr]
             /\ UNCHANGED <<lastRequestTime, admitLog, lastAdmit>>
        ELSE GapCheck(p, t, kept, nowv, tr)

\* ------------------------------------------------------------ responses
\* a value that is undefined / absent in the JSON document
Undefined == "<undefined>"

\* JavaScript truthiness of a string-or-undefined value
Truthy(v) == v # Undefined /\ v # ""

\* A response header: headers.get(name) gives null when it is absent.
NoHeader == [present |-> FALSE, value |-> <<>>]
Header(v) == [present |-> TRUE, value |-> v]

\* A body is its text together with what JSON.parse makes of that text:
\* "invalid" when it throws a SyntaxError, else the parsed document.
Invalid == [type |-> "invalid"]
JsonNull == [type |-> "null"]
Doc(results) == [type |-> "object", results |-> results]
Absent == [type |-> "absent"]
Array(items) == [type |-> "array", items |-> items]
NotArray == [type |-> "number"]

\* a JSON scalar that may be a string, a number, or missing
Str(s) == [type |-> "string", str |-> s, num |-> 0]
Number(n) == [type |-> "number", str |-> "", num |-> n]
Missing == [type |-> "undefined", str |-> "", num |-> 0]

NullRecord == [null |-> TRUE]
Image(url) == [present |-> TRUE, url |-> url]
NoImage == [present |-> FALSE, url |-> Undefined]
\* an element of extlinks / screenshots, and of developers / tags
Link(url) == [url |-> url]
Named(id, name) == [id |-> id, name |-> name]
\* a raw record with the four fields the search needs; the others missing
VN(id, title, image, released) ==
  [null |-> FALSE, id |-> id, title |-> title, image |-> image,
   released |-> released, description |-> Undefined, rating |-> Missing,
   extlinks |-> Absent, devstatus |-> Missing, screenshots |-> Absent,
   length_minutes |-> Missing, developers |-> Absent, tags |-> Absent]

Body(text, json) == [text |-> text, json |-> json]

Http(status, retryAfter, body) ==
  [kind |-> "http", status |-> status, retryAfter |-> retryAfter, body |-> body]
NetFail == [kind |-> "netfail"]

\* Response.ok
Ok(r) == r.status >= 200 /\ r.status <= 299

\* ---- outcomes of a call
Returned(value) ==
  [kind |-> "ok", class |-> "", status |-> 0, text |-> <<>>, id |-> "",
   value |-> value]
Thrown(class, status, text, id) ==
  [kind |-> "error", class |-> class, status |-> status, text |-> text,
   id |-> id, value |-> <<>>]

\* ---- classification of a response (lines 69-114, 176-223)
\* response.status === 429
IsRateLimited(r) == r.status = 429

\* mutant: the Retry-After header is not read
WaitSeconds_NoHeader(retryAfter) == Num(DEFAULT_RETRY_SECONDS)

\* retryAfter ? parseInt(retryAfter) : 60
WaitSeconds(retryAfter) ==
  IF retryAfter.present /\ retryAfter.value # <<>>
  THEN parseInt(retryAfter.value)
  ELSE Num(DEFAULT_RETRY_SECONDS)

\* mutant: only a document type declaration counts as HTML
IsHtml_Doctype(text) ==
  StartsWith(Trim(text), "<") /\ Len(Trim(text)) >= 2 /\ Trim(text)[2] = "!"

\* textResponse.trim().startsWith("<")
IsHtml(text) == StartsWith(Trim(text), "<")

\* JSON.parse(textResponse)
JsonParse(body) == body.json

\* ---- response mapper
\* s && !isNaN(new Date(s).getTime()) ? new Date(s) : undefined
ValidDates == {"2004-04-28", "2004"}
ReleaseDate(s) == IF Truthy(s) /\ s \in ValidDates THEN s ELSE Undefined

\* game && game.title && game.image?.url  (line 119)
IsValidGame(game) ==
  /\ ~game.null
  /\ Truthy(game.title)
  /\ game.image.present /\ Truthy(game.image.url)

\* Number.prototype.toString for a natural number
DigitChars == <<"0", "1", "2", "3", "4", "5", "6", "7", "8", "9">>
RECURSIVE NumToString(_)
NumToString(n) ==
  IF n < 10 THEN DigitChars[n + 1]
  ELSE NumToString(n \div 10) \o DigitChars[(n % 10) + 1]

\* id?.toString()
toString(v) ==
  IF v.type = "undefined" THEN Undefined
  ELSE IF v.type = "number" THEN NumToString(v.num)
  ELSE v.str

\* "https://vndb.org/" + id?.toString()
DataUrl(id) ==
  "https://vndb.org/" \o (IF id = Undefined THEN "undefined" ELSE id)

\* mutant: the description of the record mapped before is kept when the
\* record has none
MinimalOf_Remembering(game) ==
  [provider_slug |-> "vndb",
   provider_data_id |-> toString(game.id),
   title |-> game.title,
   description |->
     IF Truthy(game.description) THEN game.description
     ELSE IF mappings # <<>> /\ ~mappings[Len(mappings)].raw.null
          THEN mappings[Len(mappings)].raw.description
          ELSE Undefined,
   release_date |-> ReleaseDate(game.released),
   cover_url |-> game.image.url]

\* mapMinimalGameMetadata (lines 298-329) on a record that passed the checks
\* of lines 301-316
MinimalOf(game) ==
  [provider_slug |-> "vndb",
   provider_data_id |-> toString(game.id),
   title |-> game.title,
   description |->
     IF Truthy(game.description) THEN game.description ELSE Undefined,
   release_date |-> ReleaseDate(game.released),
   cover_url |-> game.image.url]

\* mapMinimalGameMetadata: null for a record it refuses
mapMinimalGameMetadata(game) ==
  IF game.null THEN NullRecord
  ELSE IF ~game.image.present \/ ~Truthy(game.image.url) THEN NullRecord
  ELSE IF ~Truthy(game.title) THEN NullRecord
  ELSE [null |-> FALSE, dto |-> MinimalOf(game)]

\* mutant: each mapped record is put in front of the earlier ones
RECURSIVE MapValid_Reversed(_)
MapValid_Reversed(games) ==
  IF games = <<>> THEN <<>>
  ELSE LET mapped == mapMinimalGameMetadata(Head(games))
       IN IF mapped.null THEN MapValid_Reversed(Tail(games))
          ELSE MapValid_Reversed(Tail(games)) \o <<mapped.dto>>

\* lines 128-136: the mapped records that are not null, in order
RECURSIVE MapValid(_)
MapValid(games) ==
  IF games = <<>> THEN <<>>
  ELSE LET mapped == mapMinimalGameMetadata(Head(games))
       IN IF mapped.null THEN MapValid(Tail(games))
          ELSE <<mapped.dto>> \o MapValid(Tail(games))

\* what an asynchronous function settles with: a value, or an exception
Value(v) == [raised |-> FALSE, class |-> "", value |-> v]
Raise(class) == [raised |-> TRUE, class |-> class, value |-> <<>>]

\* the stored-image reference mediaService.downloadByUrl(url) resolves to
MediaOf(url) == "media:" \o url

\* mutant: the collaborator's exception is not caught
downloadImage_NoCatch(image, imgOk) ==
  IF ~image.present \/ ~Truthy(image.url) THEN Value(Undefined)
  ELSE IF imgOk THEN Value(MediaOf(image.url)) ELSE Raise("ImageError")

\* downloadImage (lines 331-339): undefined without url or when the
\* collaborator throws
downloadImage(image, imgOk) ==
  IF ~image.present \/ ~Truthy(image.url) THEN Value(Undefined)
  ELSE IF imgOk THEN Value(MediaOf(image.url)) ELSE Value(Undefined)

\* list?.map((x) => x.url) || []
Urls(list) ==
  IF list.type = "array" /\ list.items # <<>>
  THEN [i \in DOMAIN list.items |-> list.items[i].url]
  ELSE <<>>

\* list?.map((x) => ({provider_slug, provider_data_id: x.id, name: x.name})) || []
Entities(list) ==
  IF list.type = "array" /\ list.items # <<>>
  THEN [i \in DOMAIN list.items |->
          [provider_slug |-> "vndb", provider_data_id |-> list.items[i].id,
           name |-> list.items[i].name]]
  ELSE <<>>

\* the object literal of lines 248-294, given what downloadImage resolved to
FullOf(visualNovel, cover) ==
  [age_rating |-> 99,
   provider_slug |-> "vndb",
   provider_data_id |-> toString(visualNovel.id),
   provider_data_url |-> DataUrl(toString(visualNovel.id)),
   title |-> visualNovel.title,
   release_date |-> ReleaseDate(visualNovel.released),
   description |-> visualNovel.description,
   rating |-> visualNovel.rating,
   url_websites |-> Urls(visualNovel.extlinks),
   early_access |->
     (visualNovel.devstatus.type = "number" /\ visualNovel.devstatus.num = 1),
   url_screenshots |-> Urls(visualNovel.screenshots),
   url_trailers |-> Undefined,
   url_gameplays |-> Undefined,
   average_playtime |-> visualNovel.length_minutes,
   developers |-> Entities(visualNovel.developers),
   publishers |-> <<>>,
   genres |-> <<[provider_slug |-> "vndb", provider_data_id |-> "1",
                 name |-> "Visual Novel"]>>,
   tags |-> Entities(visualNovel.tags),
   cover |-> cover,
   background |-> Undefined]

\* mapGameMetadata (lines 245-296): reading a field of null or undefined
\* throws a TypeError; an exception of downloadImage would pass through
mapGameMetadata(visualNovel, imgOk) ==
  IF visualNovel.null THEN Raise("TypeError")
  ELSE LET cover == downloadImage(visualNovel.image, imgOk)
       IN IF cover.raised THEN cover
          ELSE Value(FullOf(visualNovel, cover.value))

\* lines 116-146 of search, given the parsed document
SearchResult(doc) ==
  IF doc.type = "null" \/ (doc.type = "object" /\ doc.results.type = "number")
  THEN Thrown("ProcessingError", 0, <<>>, "")
  ELSE LET results ==
             IF doc.type = "object" /\ doc.results.type = "array"
             THEN doc.results.items ELSE <<>>
           validGames == SelectSeq(results, IsValidGame)
       IN IF Len(validGames) = 0 THEN Returned(<<>>)
          ELSE Returned(MapValid(validGames))

\* mutant: the record mapped is the last of the list
FirstResult_Last(results) ==
  IF results.type = "array" THEN results.items[Len(results.items)]
  ELSE NullRecord

\* responseData.results[0]
FirstResult(results) ==
  IF results.type = "array" THEN results.items[1] ELSE NullRecord

\* lines 225-243 of getByProviderDataIdOrFail, given the parsed document
GetResult(doc, id, imgOk) ==
  IF doc.type = "null" THEN Thrown("TypeError", 0, <<>>, "")
  ELSE IF doc.type # "object" \/ doc.results.type = "absent"
          \/ (doc.results.type = "array" /\ Len(doc.results.items) = 0)
  THEN Thrown("NotFoundError", 0, <<>>, id)
  ELSE LET result == mapGameMetadata(FirstResult(doc.results), imgOk)
       IN IF result.raised THEN Thrown(result.class, 0, <<>>, "")
          ELSE Returned(result.value)

\* ------------------------------------------------------------ driver
\* What one pass over a response makes of the call: it ends (next = "done")
\* with an outcome, or it sleeps `sleep` ms and starts over.
Finish(out) ==
  [next |-> "done", sleep |-> Num(0), outcome |-> out, events |-> <<>>]
Retry(ms) ==
  [next |-> "retryDelay", sleep |-> ms, outcome |-> [kind |-> "none"],
   events |-> <<"sleep">>]
After(event, h) == [h EXCEPT !.events = <<event>> \o @]

\* mutant: a failed fetch is retried like a throttled one
NetworkFailure_Retry == Retry(Num(HTML_RETRY_MS))

\* lines 64-67, 171-174: fetch threw
NetworkFailure == Finish(Thrown("NetworkError", 0, <<>>, ""))

\* mutant: a 429 is reported to the caller
RateLimited_GiveUp(r) == Finish(Thrown("RateLimitedError", r.status, <<>>, ""))

\* lines 70-79, 177-186: status 429
RateLimited(r) == Retry(Times(WaitSeconds(r.retryAfter), Num(1000)))

\* lines 82-92, 189-201: another status that is not ok
UpstreamFailure(r) ==
  Finish(Thrown("UpstreamError", r.status,
                Substring(r.body.text, ERROR_TEXT_LIMIT), ""))

\* mutant: an HTML body is reported to the caller
HtmlBody_GiveUp == Finish(Thrown("RateLimitedError", 0, <<>>, ""))

\* lines 100-108, 209-217: the text starts with "<"
HtmlBody == Retry(Num(HTML_RETRY_MS))

\* mutant: a body that does not parse is retried like an HTML body
ParseFailure_Retry == Retry(Num(HTML_RETRY_MS))

\* lines 111-114, 220-223: JSON.parse threw
ParseFailure == Finish(Thrown("MalformedResponseError", 0, <<>>, ""))

\* lines 116-146, 225-243: the parsed document is processed; the history
\* notes a failure of the image-fetch collaborator (line 336)
Processed(o, a, doc, imgOk) ==
  LET h == Finish(IF o = "search" THEN SearchResult(doc)
                  ELSE GetResult(doc, a, imgOk))
  IN IF imgOk THEN h ELSE [h EXCEPT !.events = <<"coverFailed">>]

\* lines 95-146, 204-243: a response with a success status
OnBody(o, a, r, imgOk) ==
  IF IsHtml(r.body.text) THEN HtmlBody
  ELSE LET doc == JsonParse(r.body)
       IN After("parse", IF doc.type = "invalid" THEN ParseFailure
                         ELSE Processed(o, a, doc, imgOk))

\* mutant: the HTML test is made before the status test
OnStatus_BodyFirst(o, a, r, imgOk) ==
  IF IsRateLimited(r) THEN RateLimited(r)
  ELSE IF IsHtml(r.body.text) THEN HtmlBody
  ELSE IF ~Ok(r) THEN UpstreamFailure(r)
  ELSE OnBody(o, a, r, imgOk)

\* lines 69-92, 176-201: the status is looked at first
OnStatus(o, a, r, imgOk) ==
  IF IsRateLimited(r) THEN RateLimited(r)
  ELSE IF ~Ok(r) THEN UpstreamFailure(r)
  ELSE OnBody(o, a, r, imgOk)

\* lines 54-146, 161-243: everything after fetch settles
OnResponse(o, a, r, imgOk) ==
  IF r.kind = "netfail" THEN NetworkFailure ELSE OnStatus(o, a, r, imgOk)

\* ------------------------------------------------------------ inputs
HtmlText == <<"<", "h">>
PaddedHtmlText == <<" ", "<", "h">>
GarbageText == <<"x", "<">>
LongText == [i \in 1..LongBody |-> IF i = 1 THEN "<" ELSE "x"]
JsonText == <<" ", "{", "}">>
NullText == <<"n">>

Clannad ==
  [VN(Str("v4"), "Clannad", Image("u4"), "2004-04-28") EXCEPT
     !.description = "d4", !.rating = Number(86),
     !.extlinks = Array(<<Link("w4")>>), !.devstatus = Number(0),
     !.screenshots = Array(<<Link("s4a"), Link("s4b")>>),
     !.length_minutes = Number(3000),
     !.developers = Array(<<Named("p24", "Key")>>),
     !.tags = Array(<<Named("g605", "Drama"), Named("g32", "Romance")>>)]
NoCover == VN(Str("v5"), "Kanon", NoImage, "tba")
NoTitle == VN(Str("v6"), "", Image("u6"), Undefined)
Air ==
  [VN(Number(7), "Air", Image("u7"), "2004") EXCEPT !.devstatus = Number(1)]

Documents ==
  { JsonNull, Doc(Absent), Doc(NotArray), Doc(Array(<<>>)),
    Doc(Array(<<NullRecord>>)), Doc(Array(<<Clannad>>)),
    Doc(Array(<<Clannad, NoCover, NoTitle, Air>>)) }

QuietResponse == Http(200, NoHeader, Body(JsonText, Doc(Array(<<Clannad>>))))

\* 429, and success statuses with an HTML body
ThrottlingResponses ==
  { Http(429, h, Body(HtmlText, Invalid)) :
      h \in {NoHeader, Header(<<>>), Header(<<"5">>), Header(<<"x">>)} }
  \cup { Http(429, NoHeader, Body(JsonText, Doc(Array(<<Clannad>>)))) }
  \cup { Http(200, NoHeader, Body(t, Invalid)) : t \in {HtmlText, PaddedHtmlText} }

OtherResponses ==
  { NetFail }
  \cup { Http(500, NoHeader, b) :
           b \in { Body(HtmlText, Invalid), Body(LongText, Invalid),
                   Body(JsonText, Doc(Array(<<Clannad>>))) } }
  \cup { Http(200, NoHeader, Body(IF d = JsonNull THEN NullText ELSE JsonText, d)) :
           d \in Documents }
  \cup { Http(200, Header(<<"5">>), Body(GarbageText, Invalid)) }

Queries == {"Clannad"}
Ids == {"v4", "v999999"}
Args(o) == IF o = "search" THEN Queries ELSE Ids

\* ------------------------------------------------------------ environment
\* A call answered while quiet > 0 is one of a back-to-back burst: it starts
\* the moment the previous one returned and the upstream answers with a valid
\* document.
Quiet == quiet > 0

\* time between the end of one call and the start of the next
IdleTimes ==
  IF Quiet THEN {0} ELSE {0, MIN_REQUEST_INTERVAL - 1, MIN_REQUEST_INTERVAL}

NoResponse == [kind |-> "none"]
NoOutcome == [kind |-> "none"]

Init ==
  /\ requestTimestamps = <<>>
  /\ lastRequestTime = 0
  /\ clock = StartTime
  /\ pc = [p \in Callers |-> "idle"]
  /\ op = [p \in Callers |-> "search"]
  /\ arg = [p \in Callers |-> "Clannad"]
  /\ now = [p \in Callers |-> 0]
  /\ wake = [p \in Callers |-> 0]
  /\ resp = [p \in Callers |-> NoResponse]
  /\ outcome = [p \in Callers |-> NoOutcome]
  /\ trace = [p \in Callers |-> <<>>]
  /\ admitLog = <<>>
  /\ lastAdmit = [p \in Callers |-> 0]
  /\ quiet \in {0, BurstLen}
  /\ calls = 0
  /\ retries = 0
  /\ late \in {0, LatencyMs}
  /\ tick \in {0, 1}
  /\ mappings = <<>>

\* search(query) / getByProviderDataIdOrFail(id) is called: lines 40-44 and
\* 148-152, up to the first suspension inside enforceRateLimit.
Call(p, o, a) ==
  /\ pc[p] \in {"idle", "done"}
  /\ Quiet \/ calls + retries < MaxAttempts
  /\ Quiet => o = "search"
  /\ a \in Args(o)
  /\ \E idle \in IdleTimes : Enforce(p, clock + idle, <<>>)
  /\ op' = [op EXCEPT ![p] = o]
  /\ arg' = [arg EXCEPT ![p] = a]
  /\ resp' = [resp EXCEPT ![p] = NoResponse]
  /\ outcome' = [outcome EXCEPT ![p] = NoOutcome]
  /\ calls' = IF Quiet THEN calls ELSE calls + 1
  /\ UNCHANGED <<quiet, retries, late, tick, mappings>>

\* The window-cap timer (line 363) fires; enforceRateLimit goes on at line 367.
WakeCap(p) ==
  /\ pc[p] = "capDelay"
  /\ GapCheck(p, Max(clock, wake[p]) + late, requestTimestamps, now[p], trace[p])
  /\ UNCHANGED <<now, op, arg, resp, outcome, quiet, calls, retries, late, tick,
                 mappings>>

\* The minimum-interval timer (line 371) fires; the request is recorded.
WakeGap(p) ==
  /\ pc[p] = "gapDelay"
  /\ Record(p, Max(clock, wake[p]) + late, requestTimestamps, trace[p])
  /\ UNCHANGED <<now, op, arg, resp, outcome, quiet, calls, retries, late, tick,
                 mappings>>

\* mutant: the request is stamped again when it is sent
Send_Stamping(p) ==
  /\ pc[p] = "admitted"
  /\ pc' = [pc EXCEPT ![p] = "fetching"]
  /\ trace' = [trace EXCEPT ![p] = Append(@, "request")]
  /\ requestTimestamps' = Append(requestTimestamps, clock)
  /\ UNCHANGED <<lastRequestTime, clock, op, arg, now, wake, resp, outcome,
                 admitLog, lastAdmit, quiet, calls, retries, late, tick,
                 mappings>>

\* enforceRateLimit has returned: fetch(url, ...) is issued (lines 56, 163).
Send(p) ==
  /\ pc[p] = "admitted"
  /\ pc' = [pc EXCEPT ![p] = "fetching"]
  /\ trace' = [trace EXCEPT ![p] = Append(@, "request")]
  /\ UNCHANGED <<requestTimestamps, lastRequestTime, clock, op, arg, now, wake,
                 resp, outcome, admitLog, lastAdmit, quiet, calls, retries, late,
                 tick, mappings>>

\* the responses of a call that is not drawn from the whole set
PlainResponses ==
  { QuietResponse, NetFail,
    Http(429, NoHeader, Body(HtmlText, Invalid)),
    Http(429, Header(<<"5">>), Body(HtmlText, Invalid)),
    Http(200, NoHeader, Body(HtmlText, Invalid)) }

\* what the upstream may answer
Upstream ==
  LET all == IF calls <= VariedCalls
             THEN ThrottlingResponses \cup OtherResponses
             ELSE PlainResponses
  IN IF Quiet THEN {QuietResponse}
     ELSE IF calls + retries < MaxAttempts THEN all
     ELSE all \ ThrottlingResponses

\* the document's first result is a record with an image URL
HasCoverUrl(doc) ==
  /\ doc.type = "object" /\ doc.results.type = "array"
  /\ doc.results.items # <<>>
  /\ ~doc.results.items[1].null
  /\ doc.results.items[1].image.present
  /\ Truthy(doc.results.items[1].image.url)

\* the collaborator that fetches the cover may fail, when it is called
ImageFetches(o, r) ==
  IF o = "get" /\ ~Quiet /\ r.kind = "http" /\ Ok(r) /\ HasCoverUrl(r.body.json)
  THEN BOOLEAN ELSE {TRUE}

\* how the history names what the upstream did
Answer(r) ==
  IF r \in ThrottlingResponses THEN "throttled"
  ELSE IF r.kind = "netfail" THEN "failed" ELSE "answered"

\* fetch settles (lines 56-67, 163-174) with one of `responses` and the
\* response is handled up to the return, the throw, or the retry delay
\* (lines 69-146, 176-243).
Settle(p, responses) ==
  /\ pc[p] = "fetching"
  /\ \E r \in responses : \E imgOk \in ImageFetches(op[p], r) :
       LET h == OnResponse(op[p], arg[p], r, imgOk)
           t == clock + late
           again == h.next = "retryDelay"
       IN /\ again => calls + retries < MaxAttempts
          /\ clock' = t
          /\ resp' = [resp EXCEPT ![p] = r]
          /\ outcome' = [outcome EXCEPT ![p] = h.outcome]
          /\ pc' = [pc EXCEPT ![p] = h.next]
          /\ wake' = [wake EXCEPT ![p] = IF again THEN t + delay(h.sleep) ELSE 0]
          /\ trace' = [trace EXCEPT ![p] = @ \o <<Answer(r)>> \o h.events]
          /\ retries' = IF again \/ r \in ThrottlingResponses
                        THEN retries + 1 ELSE retries
          /\ quiet' = IF Quiet /\ ~again THEN quiet - 1 ELSE quiet
  /\ UNCHANGED <<requestTimestamps, lastRequestTime, op, arg, now, admitLog,
                 lastAdmit, calls, late, tick, mappings>>

\* fetch settles with what the upstream may answer
Receive(p) == Settle(p, Upstream)

\* mutant: the retry sends the request again without calling the operation
\* from its start
WakeRetry_Resend(p) ==
  /\ pc[p] = "retryDelay"
  /\ clock' = Max(clock, wake[p]) + late
  /\ pc' = [pc EXCEPT ![p] = "admitted"]
  /\ wake' = [wake EXCEPT ![p] = 0]
  /\ UNCHANGED <<requestTimestamps, lastRequestTime, admitLog, lastAdmit, now,
                 trace,
                 op, arg, resp, outcome, quiet, calls, retries, late, tick, mappings>>

\* The retry timer (lines 76, 105, 183, 214) fires and the operation calls
\* itself (lines 78, 107, 185, 216): enforceRateLimit runs again.
WakeRetry(p) ==
  /\ pc[p] = "retryDelay"
  /\ Enforce(p, Max(clock, wake[p]) + late, trace[p])
  /\ UNCHANGED <<op, arg, resp, outcome, quiet, calls, retries, late, tick, mappings>>

\* the steps of caller p's call once it has started
Step(p) == WakeCap(p) \/ WakeGap(p) \/ Send(p) \/ Receive(p) \/ WakeRetry(p)

\* One caller issues its calls one after the other.
Next ==
  \/ \E o \in Ops : \E a \in Args(o) : Call(1, o, a)
  \/ Step(1)

Spec == Init /\ [][Next]_vars

\* The event loop runs every timer that is due and every settled fetch, so a
\* call that has started keeps taking its steps.
FairSpec == Spec /\ WF_vars(Step(1))

\* ---- calls that overlap
\* Two callers use the provider without waiting for each other: a call of one
\* starts, and its timers fire, while a call of the other is suspended.  The
\* runs have no burst, so the window never fills and its timer is never set.
OverlapNext ==
  \E p \in Callers :
    \/ \E a \in Queries : Call(p, "search", a)
    \/ WakeGap(p)
    \/ Send(p)
    \/ Settle(p, PlainResponses)
    \/ WakeRetry(p)

OverlapInit == Init /\ quiet = 0 /\ tick = 0

OverlapSpec == OverlapInit /\ [][OverlapNext]_vars

\* ---- the mappers alone
\* the raw records handed to the mappers
RawRecords == {NullRecord, Clannad, NoCover, NoTitle, Air}

\* what the history keeps of one invocation
Mapping(mapper, raw, out) == [mapper |-> mapper, raw |-> raw, out |-> out]

\* the limiter and the callers take no part in a mapping
MapperFrame ==
  UNCHANGED <<requestTimestamps, lastRequestTime, clock, pc, op, arg, now, wake,
              resp, outcome, trace, admitLog, lastAdmit, quiet, calls, retries,
              late, tick>>

\* mapGameMetadata is invoked on a raw record (line 231); the image-fetch
\* collaborator succeeds or fails
MapFull(visualNovel, imgOk) ==
  /\ Len(mappings) < MaxMappings
  /\ mappings' = Append(mappings, Mapping("full", visualNovel,
                                      mapGameMetadata(visualNovel, imgOk)))
  /\ MapperFrame

\* mapMinimalGameMetadata is invoked on a raw record (line 130)
MapMinimal(game) ==
  /\ Len(mappings) < MaxMappings
  /\ mappings' = Append(mappings, Mapping("minimal", game,
                                      mapMinimalGameMetadata(game)))
  /\ MapperFrame

MapNext ==
  \/ \E visualNovel \in RawRecords : \E imgOk \in BOOLEAN :
       MapFull(visualNovel, imgOk)
  \/ \E game \in RawRecords : MapMinimal(game)

\* The mappers are invoked in any order on any records, from the state the
\* provider is constructed in.
MapInit == Init /\ quiet = 0 /\ late = 0 /\ tick = 0

MapSpec == MapInit /\ [][MapNext]_vars

\* ------------------------------------------------------------ properties
Last(s) == s[Len(s)]

\* number of occurrences of event e in history tr
Count(tr, e) == Cardinality({i \in DOMAIN tr : tr[i] = e})

\* the events of tr that belong to set es, in order
Only(tr, es) == SelectSeq(tr, LAMBDA e : e \in es)

\* <<"admit", "request">> repeated n times
RECURSIVE AdmitRequest(_)
AdmitRequest(n) ==
  IF n = 0 THEN <<>> ELSE <<"admit", "request">> \o AdmitRequest(n - 1)

\* C1: any two consecutive admissions recorded by enforceRateLimit, over all
\* the sequential calls and their retries, are at least 1500 ms apart.
C1_MinimumGap ==
  Len(admitLog) >= 2 =>
    admitLog[Len(admitLog)] - admitLog[Len(admitLog) - 1] >= MIN_REQUEST_INTERVAL

\* C1 witness: a call that came less than 1500 ms after the previous admission
\* was held back and recorded exactly 1500 ms after it.
C1_Witness ==
  /\ quiet = 0 /\ calls >= 1 /\ Len(admitLog) >= 2
  /\ pc[1] = "admitted" /\ now[1] < admitLog[Len(admitLog)]
  /\ admitLog[Len(admitLog)] - admitLog[Len(admitLog) - 1] = MIN_REQUEST_INTERVAL

\* the recorded timestamps that lie in the window that ends at time t
InWindow(t) == {i \in DOMAIN admitLog : t - admitLog[i] < RATE_LIMIT_WINDOW}

\* C2: at every moment at most 200 recorded admission timestamps lie in the
\* trailing 300,000 ms window.
C2_WindowCap == Cardinality(InWindow(clock)) <= MAX_REQUESTS_PER_5_MIN

\* C2 witness: the 201st request of a burst has been recorded after its wait
\* for the window, and the window holds exactly 200 timestamps.
C2_Witness ==
  /\ Len(admitLog) = MAX_REQUESTS_PER_5_MIN + 1
  /\ Cardinality(InWindow(clock)) = MAX_REQUESTS_PER_5_MIN
  /\ pc[1] = "admitted"
  /\ admitLog[Len(admitLog)] - admitLog[1] < RATE_LIMIT_WINDOW + MIN_REQUEST_INTERVAL

\* a step in which caller p's fetch settles with response r
Settles(p) == pc[p] = "fetching" /\ pc'[p] # "fetching"

\* a step in which caller p's retry timer fires: the operation starts over
\* inside enforceRateLimit, no earlier than the timer allows, and sends nothing
Restarts(p) ==
  (pc[p] = "retryDelay" /\ pc'[p] # "retryDelay") =>
    /\ clock' >= wake[p]
    /\ pc'[p] \in {"capDelay", "gapDelay", "admitted"}
    /\ now'[p] >= wake[p]
    /\ Only(trace'[p], {"request"}) = Only(trace[p], {"request"})
    /\ outcome'[p] = NoOutcome

\* a request is sent only right after an admission
SendsAfterAdmit(p) ==
  (Len(trace'[p]) > Len(trace[p]) /\ Last(trace'[p]) = "request") =>
    (trace[p] # <<>> /\ Last(trace[p]) = "admit")

\* C3: on status 429 the call sleeps Retry-After seconds (60 when the header
\* is absent), then starts the operation over through enforceRateLimit before
\* the next request; the 429 is not surfaced as an error.
C3_Retry429 ==
  [][\A p \in Callers :
       /\ (Settles(p) /\ resp'[p].kind = "http" /\ resp'[p].status = 429) =>
            /\ pc'[p] = "retryDelay"
            /\ outcome'[p] = NoOutcome
            /\ ~resp'[p].retryAfter.present =>
                 wake'[p] = clock' + 60 * 1000
            /\ resp'[p].retryAfter = Header(<<"5">>) =>
                 wake'[p] = clock' + 5 * 1000
       /\ Restarts(p)
       /\ SendsAfterAdmit(p)]_vars

\* C3 witness: after a 429 with Retry-After: 5 the call slept, was admitted
\* again and has sent its second request.
C3_Witness ==
  /\ pc[1] = "fetching"
  /\ resp[1].kind = "http" /\ resp[1].status = 429
  /\ resp[1].retryAfter = Header(<<"5">>)
  /\ Only(trace[1], {"admit", "request", "sleep"}) =
       <<"admit", "request", "sleep", "admit", "request">>

\* C4: a success status with a body that begins with "<" is never parsed as
\* JSON and gives no MalformedResponseError: the call sleeps 60 s and starts
\* over, through enforceRateLimit.
C4_HtmlRetry ==
  [][\A p \in Callers :
       /\ (Settles(p) /\ resp'[p].kind = "http"
             /\ resp'[p].status \in 200..299
             /\ resp'[p].body.text # <<>> /\ Head(resp'[p].body.text) = "<") =>
            /\ pc'[p] = "retryDelay"
            /\ wake'[p] = clock' + 60 * 1000
            /\ outcome'[p] = NoOutcome
            /\ Count(trace'[p], "parse") = Count(trace[p], "parse")
            /\ Last(trace'[p]) = "sleep"
       /\ Restarts(p)]_vars

\* C4 witness: an HTML body with status 200 has put the call to sleep.
C4_Witness ==
  /\ pc[1] = "retryDelay"
  /\ resp[1].kind = "http" /\ resp[1].status = 200
  /\ resp[1].body.text = HtmlText
  /\ wake[1] = clock + 60 * 1000

\* C5: a call that got k throttling responses and then another response sent
\* exactly k+1 requests after exactly k+1 admissions, strictly alternating;
\* one 429 followed by a valid response ends in a result, not an error.
C5_OneRequestPerAdmission ==
  \A p \in Callers :
    pc[p] = "done" =>
      LET k == Count(trace[p], "throttled")
      IN /\ Only(trace[p], {"admit", "request"}) = AdmitRequest(k + 1)
         /\ Count(trace[p], "sleep") = k
         /\ (k = 1 /\ resp[p] = QuietResponse) => outcome[p].kind = "ok"

\* C5 witness: fetch-by-id got a 429 with Retry-After: 5, then a valid
\* response, and returned a record after two requests.
C5_Witness ==
  /\ pc[1] = "done" /\ op[1] = "get"
  /\ Count(trace[1], "throttled") = 1 /\ Count(trace[1], "request") = 2
  /\ resp[1] = QuietResponse
  /\ outcome[1].kind = "ok"

\* the upstream's answers in history tr
Answers(tr) == Only(tr, {"throttled", "answered", "failed"})

\* C6: retrying on throttling has no ceiling: while every answer so far was a
\* 429 or an HTML body the call has neither returned nor failed, whatever their
\* number; and once the upstream stops throttling the call ends.
C6_UnboundedRetry ==
  /\ [](\A p \in Callers :
          (trace[p] # <<>> /\ Count(trace[p], "throttled") = Len(Answers(trace[p]))) =>
            (pc[p] \notin {"idle", "done"} /\ outcome[p] = NoOutcome))
  /\ \A p \in Callers : (pc[p] \notin {"idle", "done"}) ~> (pc[p] = "done")

\* C6 witness: a call throttled twice in a row is asleep before its third
\* attempt.
C6_Witness ==
  /\ pc[1] = "retryDelay"
  /\ Count(trace[1], "throttled") = 2 /\ Len(Answers(trace[1])) = 2
  /\ outcome[1] = NoOutcome

\* the response is a throttling one: status 429, or a success status with a
\* body that starts with "<" once trimmed
IsThrottling(r) ==
  r.kind = "http" /\ (r.status = 429
                       \/ (r.status \in 200..299 /\ StartsWith(Trim(r.body.text), "<")))

\* C7 as claimed: every error surfaced is a NetworkError, an UpstreamError, a
\* MalformedResponseError or a NotFoundError, and none is caused by a 429 or an
\* HTML body.
C7_Original ==
  \A p \in Callers :
    outcome[p].kind = "error" =>
      /\ outcome[p].class \in {"NetworkError", "UpstreamError",
                               "MalformedResponseError", "NotFoundError"}
      /\ ~IsThrottling(resp[p])

\* C7 amended: every error surfaced is a NetworkError (fetch failed), an
\* UpstreamError (status neither success nor 429), a MalformedResponseError
\* (body is not JSON), a NotFoundError (fetch-by-id without results), or an
\* error raised while processing a body that did parse as JSON (search:
\* "Failed to process VNDB search results"; fetch-by-id: the exception itself);
\* none is caused by a 429 or an HTML body.
C7_ErrorClasses ==
  \A p \in Callers :
    outcome[p].kind = "error" =>
      LET c == outcome[p].class
          r == resp[p]
          parsed == r.kind = "http" /\ r.status \in 200..299
                      /\ r.body.json.type # "invalid"
      IN /\ ~IsThrottling(r)
         /\ c \in {"NetworkError", "UpstreamError", "MalformedResponseError",
                   "NotFoundError", "ProcessingError", "TypeError"}
         /\ c = "NetworkError" <=> r.kind = "netfail"
         /\ c = "UpstreamError" <=>
              (r.kind = "http" /\ r.status \notin 200..299)
         /\ c = "MalformedResponseError" <=>
              (r.kind = "http" /\ r.status \in 200..299
                 /\ r.body.json.type = "invalid")
         /\ c = "NotFoundError" => (parsed /\ op[p] = "get")
         /\ c = "ProcessingError" => (parsed /\ op[p] = "search")
         /\ c = "TypeError" => (parsed /\ op[p] = "get")

\* C7 witness: search got the JSON document null and failed with the
\* processing error.
C7_Witness ==
  /\ pc[1] = "done" /\ op[1] = "search"
  /\ resp[1].kind = "http" /\ resp[1].body.json = JsonNull
  /\ outcome[1].kind = "error" /\ outcome[1].class = "ProcessingError"

\* C8: a failed fetch ends the call in the same step with a NetworkError: no
\* timer is started, the limiter is untouched, and the call sends and admits
\* nothing afterwards.
C8_NetworkFatal ==
  [][\A p \in Callers :
       /\ (Settles(p) /\ resp'[p].kind = "netfail") =>
            /\ pc'[p] = "done"
            /\ outcome'[p] = Thrown("NetworkError", 0, <<>>, "")
            /\ wake'[p] = 0
            /\ trace'[p] = Append(trace[p], "failed")
            /\ UNCHANGED <<requestTimestamps, lastRequestTime, admitLog>>
       /\ (pc[p] = "done" /\ outcome[p].class = "NetworkError"
             /\ trace'[p] # trace[p]) =>
            (outcome'[p] = NoOutcome /\ resp'[p] = NoResponse
               /\ Len(trace'[p]) <= 1)]_vars

\* C8 witness: a retried call whose second fetch failed has ended with a
\* NetworkError.
C8_Witness ==
  /\ pc[1] = "done" /\ resp[1].kind = "netfail"
  /\ outcome[1].class = "NetworkError"
  /\ Answers(trace[1]) = <<"throttled", "failed">>
  /\ Last(trace[1]) = "failed"

\* C9: the status is classified before the body: a status that is neither a
\* success nor 429 ends the call with an UpstreamError that carries the status
\* and the first 200 characters of the body at most, without retry, whatever
\* the body; a 429 is always handled as throttling.
C9_StatusFirst ==
  [][\A p \in Callers :
       (Settles(p) /\ resp'[p].kind = "http") =>
         LET r == resp'[p]
             n == IF Len(r.body.text) > 200 THEN 200 ELSE Len(r.body.text)
         IN /\ (r.status \notin 200..299 /\ r.status # 429) =>
                 /\ pc'[p] = "done"
                 /\ outcome'[p] =
                      Thrown("UpstreamError", r.status, SubSeq(r.body.text, 1, n), "")
                 /\ wake'[p] = 0
                 /\ trace'[p] = Append(trace[p], "answered")
            /\ r.status = 429 =>
                 (pc'[p] = "retryDelay" /\ outcome'[p] = NoOutcome
                    /\ Count(trace'[p], "parse") = Count(trace[p], "parse"))]_vars

\* C9 witness: status 500 with a body of more than 200 characters that begins
\* with "<" has ended the call with an UpstreamError carrying 200 characters.
C9_Witness ==
  /\ pc[1] = "done" /\ resp[1].kind = "http" /\ resp[1].status = 500
  /\ Len(resp[1].body.text) > 200 /\ Head(resp[1].body.text) = "<"
  /\ outcome[1].class = "UpstreamError" /\ outcome[1].status = 500
  /\ Len(outcome[1].text) = 200

\* the last response was a success status with a body that is not JSON
Unparsable(p) ==
  /\ resp[p].kind = "http" /\ resp[p].status \in 200..299
  /\ resp[p].body.json.type = "invalid"

\* what C10 says of such a call: it ended with a MalformedResponseError, with
\* no timer started
MalformedFatal(p) ==
  /\ pc[p] = "done"
  /\ outcome[p] = Thrown("MalformedResponseError", 0, <<>>, "")
  /\ wake[p] = 0
  /\ Last(trace[p]) = "parse"
  /\ Count(trace[p], "sleep") = Count(trace[p], "throttled")

\* C10 as claimed: a success status whose body does not begin with "<" and
\* does not parse ends the call with a MalformedResponseError, no delay, no
\* retry.
C10_Original ==
  \A p \in Callers :
    (Unparsable(p) /\ (resp[p].body.text = <<>> \/ Head(resp[p].body.text) # "<"))
      => MalformedFatal(p)

\* C10 amended: a success status whose body, once trimmed of white space, does
\* not begin with "<" and does not parse ends the call with a
\* MalformedResponseError, no delay, no retry.
C10_MalformedFatal ==
  \A p \in Callers :
    (Unparsable(p) /\ ~StartsWith(Trim(resp[p].body.text), "<"))
      => MalformedFatal(p)

\* C10 witness: status 200 with a body that is neither HTML nor JSON has ended
\* the call with a MalformedResponseError.
C10_Witness ==
  /\ pc[1] = "done" /\ Unparsable(1)
  /\ resp[1].body.text = GarbageText
  /\ outcome[1].class = "MalformedResponseError"

\* the last response had a success status and a body that parsed to a JSON
\* object, which the call has processed
ParsedObject(p) ==
  /\ pc[p] = "done"
  /\ resp[p].kind = "http" /\ resp[p].status \in 200..299
  /\ ~StartsWith(Trim(resp[p].body.text), "<")
  /\ resp[p].body.json.type = "object"

\* the call ended on its last response without starting a timer
EndedAtOnce(p) ==
  /\ pc[p] = "done" /\ wake[p] = 0
  /\ Count(trace[p], "sleep") = Count(trace[p], "throttled")

\* C11: fetch-by-id whose parsed response has an absent or empty results list
\* fails with a NotFoundError that carries the requested id, without retry;
\* with a results list whose first element is a record it returns the mapping
\* of that first record.
C11_NotFoundOrFirst ==
  \A p \in Callers :
    (op[p] = "get" /\ ParsedObject(p)) =>
      LET results == resp[p].body.json.results
      IN /\ (results.type = "absent"
               \/ (results.type = "array" /\ results.items = <<>>)) =>
              /\ outcome[p].kind = "error"
              /\ outcome[p].class = "NotFoundError"
              /\ outcome[p].id = arg[p]
              /\ EndedAtOnce(p)
         /\ (results.type = "array" /\ results.items # <<>>
               /\ ~results.items[1].null) =>
              LET first == results.items[1]
              IN /\ outcome[p].kind = "ok"
                 /\ outcome[p].value.title = first.title
                 /\ first.id.type = "string" =>
                      /\ outcome[p].value.provider_data_id = first.id.str
                      /\ outcome[p].value.provider_data_url =
                           "https://vndb.org/" \o first.id.str
                 /\ outcome[p].value.description = first.description
                 /\ outcome[p].value.rating = first.rating
                 /\ outcome[p].value.average_playtime = first.length_minutes

\* C11 witness: fetch-by-id of "v999999" got an empty results list and failed
\* with a NotFoundError for "v999999" after a single request.
C11_Witness ==
  /\ pc[1] = "done" /\ op[1] = "get" /\ arg[1] = "v999999"
  /\ resp[1].kind = "http" /\ resp[1].body.json = Doc(Array(<<>>))
  /\ outcome[1] = Thrown("NotFoundError", 0, <<>>, "v999999")
  /\ Count(trace[1], "request") = 1

\* the positions of the records of a results list that have a non-empty title
\* and a non-empty image URL
Usable(items) ==
  {i \in DOMAIN items :
     /\ ~items[i].null
     /\ items[i].title \notin {Undefined, ""}
     /\ items[i].image.present /\ items[i].image.url \notin {Undefined, ""}}

\* the n-th smallest element of a set of positions
Nth(positions, n) ==
  CHOOSE i \in positions : Cardinality({j \in positions : j < i}) = n - 1

\* the minimal projection `dto` is that of raw record `game`
ProjectionOf(dto, game) ==
  /\ dto.provider_slug = "vndb"
  /\ game.id.type = "string" => dto.provider_data_id = game.id.str
  /\ game.id = Number(7) => dto.provider_data_id = "7"
  /\ dto.title = game.title
  /\ dto.cover_url = game.image.url

\* C12: for a results list returned to search, the output is the records with
\* a non-empty title and a non-empty image URL, in their original order, one
\* minimal projection each, whose provider_data_id is the record's id as a
\* string; the others are skipped without error, and when none is left (or
\* the list is absent) the output is the empty sequence.
C12_SearchFilter ==
  \A p \in Callers :
    (op[p] = "search" /\ ParsedObject(p)
       /\ resp[p].body.json.results.type \in {"array", "absent"}) =>
      LET results == resp[p].body.json.results
          items == IF results.type = "array" THEN results.items ELSE <<>>
          out == outcome[p].value
      IN /\ outcome[p].kind = "ok"
         /\ Len(out) = Cardinality(Usable(items))
         /\ \A n \in 1..Len(out) :
              ProjectionOf(out[n], items[Nth(Usable(items), n)])

\* C12 witness: search got four records, one without image and one without
\* title, and returned the projections of the first and the fourth.
C12_Witness ==
  /\ pc[1] = "done" /\ op[1] = "search"
  /\ resp[1].kind = "http"
  /\ resp[1].body.json = Doc(Array(<<Clannad, NoCover, NoTitle, Air>>))
  /\ outcome[1].kind = "ok" /\ Len(outcome[1].value) = 2
  /\ outcome[1].value[1].provider_data_id = "v4"
  /\ outcome[1].value[2].provider_data_id = "7"

\* the image-fetch collaborator failed during caller p's last response
CoverFailed(p) ==
  pc[p] = "done" /\ trace[p] # <<>> /\ Last(trace[p]) = "coverFailed"

\* C13: in fetch-by-id a failure of the image-fetch collaborator does not
\* abort the call: the full record of the first result is returned, its cover
\* unset and every other field as it is when the fetch succeeds.
C13_CoverFailureNonFatal ==
  \A p \in Callers :
    CoverFailed(p) =>
      LET first == resp[p].body.json.results.items[1]
          got == outcome[p].value
      IN /\ op[p] = "get"
         /\ outcome[p].kind = "ok"
         /\ got.cover = Undefined
         /\ got.title = first.title
         /\ got.rating = first.rating
         /\ Len(got.url_screenshots) =
              (IF first.screenshots.type = "array"
               THEN Len(first.screenshots.items) ELSE 0)
         /\ [got EXCEPT !.cover = MediaOf(first.image.url)] =
              FullOf(first, MediaOf(first.image.url))

\* C13 witness: fetch-by-id of "v4" returned the record of Clannad without
\* cover after the image fetch failed.
C13_Witness ==
  /\ CoverFailed(1) /\ op[1] = "get" /\ arg[1] = "v4"
  /\ outcome[1].kind = "ok"
  /\ outcome[1].value.title = "Clannad"
  /\ outcome[1].value.cover = Undefined
  /\ Len(outcome[1].value.tags) = 2

SaveCover(out) ==
  IF out.raised THEN out ELSE [out EXCEPT !.value.cover = Undefined]

Admits(p) ==
  admitLog' # admitLog /\ pc[p] # "admitted" /\ pc'[p] = "admitted"

\* C15: with calls that overlap the minimum interval can be broken, and it
\* is broken only in this way: an admission recorded less than 1500 ms after
\* the previous one is recorded by a caller waking from a delay of
\* enforceRateLimit, during which another caller recorded that previous
\* admission.
C15_OverlapBreaksGap ==
  [][\A p \in Callers :
       (Admits(p) /\ admitLog # <<>>
          /\ Last(admitLog') - Last(admitLog) < MIN_REQUEST_INTERVAL) =>
         /\ pc[p] \in {"gapDelay", "capDelay"}
         /\ \E q \in Callers \ {p} :
              /\ lastAdmit[q] = Last(admitLog)
              /\ lastAdmit[q] >= now[p]]_vars

\* C15 witness: caller 2 entered enforceRateLimit while caller 1 was suspended
\* in its delay, and the two admissions were recorded less than 1500 ms apart.
C15_Witness ==
  /\ Len(admitLog) >= 2
  /\ Last(admitLog) - admitLog[Len(admitLog) - 1] < MIN_REQUEST_INTERVAL
  /\ lastAdmit[1] = admitLog[Len(admitLog) - 1]
  /\ lastAdmit[2] = Last(admitLog)
  /\ now[1] < now[2] /\ now[2] < lastAdmit[1]
  /\ pc[2] = "admitted"

\* C16: a caller is suspended for the minimum interval only if the time since
\* the most recent admission, measured when the check is made (after the
\* wait for the window, if there was one), is below 1500 ms, and then until
\* 1500 ms after that admission; so a caller that has waited 1500 ms or more
\* for the window is not suspended again.
C16_RecomputedGap ==
  \A p \in Callers :
    pc[p] = "gapDelay" =>
      /\ clock - lastRequestTime < MIN_REQUEST_INTERVAL
      /\ wake[p] = lastRequestTime + MIN_REQUEST_INTERVAL

\* a step in which caller p's enforceRateLimit starts its wait for the window
StartsCapWait(p) == pc[p] # "capDelay" /\ pc'[p] = "capDelay"

\* C17: the wait for the window is started with 200 or more timestamps stored
\* after pruning and not with fewer, and its timer is set to 300,100 ms after
\* the oldest of them or later; until the admission is recorded nothing is
\* stored and the limiter's state does not change; and an admission recorded
\* on top of 200 stored timestamps is recorded 300,100 ms after the oldest or
\* later.
C17_WindowWait ==
  /\ [](Len(requestTimestamps) > MAX_REQUESTS_PER_5_MIN =>
          Last(requestTimestamps) >=
            requestTimestamps[1] + RATE_LIMIT_WINDOW + 100)
  /\ [][\A p \in Callers :
          /\ StartsCapWait(p) =>
               /\ Len(requestTimestamps') >= MAX_REQUESTS_PER_5_MIN
               /\ wake'[p] >= requestTimestamps'[1] + RATE_LIMIT_WINDOW + 100
               /\ UNCHANGED <<lastRequestTime, admitLog>>
          /\ (pc[p] \in {"idle", "done", "retryDelay"} /\ pc'[p] = "gapDelay") =>
               Len(requestTimestamps') < MAX_REQUESTS_PER_5_MIN
          /\ (pc[p] \in {"idle", "done", "retryDelay"} /\ pc'[p] = "admitted") =>
               Len(requestTimestamps') <= MAX_REQUESTS_PER_5_MIN
          /\ (pc[p] = "capDelay" /\ pc'[p] # "admitted") =>
               UNCHANGED <<requestTimestamps, lastRequestTime, admitLog>>
          /\ (pc[p] = "capDelay" /\ pc'[p] # "capDelay") =>
               clock' >= requestTimestamps[1] + RATE_LIMIT_WINDOW + 100]_vars

\* C17 witness: the 201st request of a burst has been recorded on top of 200
\* stored timestamps, more than 300,100 ms after the oldest.
C17_Witness ==
  /\ pc[1] = "admitted"
  /\ Len(requestTimestamps) = MAX_REQUESTS_PER_5_MIN + 1
  /\ Last(requestTimestamps) >= requestTimestamps[1] + RATE_LIMIT_WINDOW + 100
  /\ now[1] < requestTimestamps[1] + RATE_LIMIT_WINDOW

\* every stored timestamp is less than 300,000 ms older than time t
AllWithin(t) ==
  \A i \in DOMAIN requestTimestamps :
    t - requestTimestamps[i] < RATE_LIMIT_WINDOW

\* C18 as claimed: every stored timestamp lies in the trailing 300,000 ms of
\* the current time at each admission check and at the moment a new admission
\* is recorded.
C18_Original ==
  \A p \in Callers :
    /\ pc[p] \in {"capDelay", "gapDelay"} => AllWithin(now[p])
    /\ pc[p] = "admitted" => AllWithin(Last(requestTimestamps))

\* C18 amended: every stored timestamp lies in the trailing 300,000 ms of the
\* time read at the last admission check, the list being pruned at the check
\* and not again before the admission is recorded.
C18_PrunedAtCheck ==
  \A p \in Callers : pc[p] # "idle" => AllWithin(now[p])

\* C18 witness: the call after the 201st request of a burst has pruned
\* timestamps that left the window, and has recorded its own.
C18_Witness ==
  /\ pc[1] = "admitted"
  /\ Len(admitLog) = MAX_REQUESTS_PER_5_MIN + 1
  /\ now[1] - admitLog[1] >= RATE_LIMIT_WINDOW
  /\ Len(requestTimestamps) <= MAX_REQUESTS_PER_5_MIN
  /\ requestTimestamps[1] > admitLog[1]

\* a step of caller p that runs inside enforceRateLimit: from its entry, or
\* from one of its two timers, to its next timer or its return
InEnforce(p) ==
  /\ pc[p] \in {"idle", "done", "retryDelay", "capDelay", "gapDelay"}
  /\ pc'[p] \in {"capDelay", "gapDelay", "admitted"}

\* s is what is left of t when its first elements are dropped
IsSuffix(s, t) ==
  Len(s) <= Len(t) /\ s = SubSeq(t, Len(t) - Len(s) + 1, Len(t))

\* C19: the request-timestamp list and the last-request marker change only
\* in steps inside enforceRateLimit: sending the request, the settling of the
\* fetch with any response (retry delay, result or error) and the start of a
\* retry delay leave both as they are, and a call finds them as the previous
\* call left them: what it stores is what was stored, less the oldest
\* entries pruned, with at most its own timestamp added.
C19_LimiterFrame ==
  [][\A p \in Callers :
       /\ (requestTimestamps' # requestTimestamps
             \/ lastRequestTime' # lastRequestTime) =>
            \E q \in Callers : InEnforce(q)
       /\ (pc[p] \in {"admitted", "fetching"}
             /\ pc'[p] \in {"fetching", "retryDelay", "done"}) =>
            UNCHANGED <<requestTimestamps, lastRequestTime>>
       /\ InEnforce(p) =>
            /\ IsSuffix(IF pc'[p] = "admitted"
                         THEN SubSeq(requestTimestamps', 1,
                                     Len(requestTimestamps') - 1)
                         ELSE requestTimestamps',
                         requestTimestamps)
            /\ pc'[p] # "admitted" => lastRequestTime' = lastRequestTime]_vars

\* C19 witness: a call that was throttled, slept and ended with an error has
\* left the limiter as its second admission set it.
C19_Witness ==
  /\ pc[1] = "done" /\ outcome[1].kind = "error"
  /\ Count(trace[1], "sleep") = 1 /\ Count(trace[1], "admit") = 2
  /\ requestTimestamps # <<>>
  /\ Last(requestTimestamps) = Last(admitLog)
  /\ lastRequestTime = Last(admitLog) + tick

\* C20: the stored request-timestamp list never holds more than 201 entries,
\* however many calls were made and whatever the upstream answered.
C20_BoundedList == Len(requestTimestamps) <= MAX_REQUESTS_PER_5_MIN + 1

\* C20 witness: after a burst and further calls the list holds 201 entries,
\* of which the oldest has left the window.
C20_Witness ==
  /\ Len(requestTimestamps) = MAX_REQUESTS_PER_5_MIN + 1
  /\ calls >= 1 /\ pc[1] = "done"
  /\ clock - requestTimestamps[1] >= RATE_LIMIT_WINDOW

====
